---- MODULE Spec2Model ----
(***************************************************************************)
(* DataProcessor.train_test_split and DataProcessor.disp_label_cardinality *)
(* of iris_module.py, with the two library facilities the partitioner      *)
(* rests on modelled by what they compute: binary64 arithmetic (the ratio  *)
(* check and the cut points) and the process-wide Mersenne Twister of the  *)
(* random module (seed, getrandbits, _randbelow, shuffle).                 *)
(***************************************************************************)
EXTENDS Integers, Sequences, FiniteSets, TLC

\* ------------------------------------------------------------------ bounds
\* longest X and y of the datasets enumerated with every label sequence
MaxLen == 3
\* largest dataset of the regular (one label per observation) datasets
MaxN == 10
\* how far foreign draws may advance the generator after a (re)seeding
MaxPos == 3

\* ------------------------------------------------- binary64 (Python float)
\* A natural number is a sequence of limbs in base 2^15, least significant
\* first, without leading zero limbs.  A float is [m |-> the 53-bit
\* significand as such a number, e |-> the exponent of its last bit], value
\* m * 2^e; zero is [m |-> <<>>, e |-> 0].  Only finite, non-negative,
\* normal values occur in the partitioner.
MantBits == 53
LimbBits == 15
Base == 2 ^ LimbBits
\* limbs of the binary fraction generated when a decimal literal is converted
LiteralLimbs == 5
\* ratio literals are written with two decimal places: k stands for k/100
LiteralDen == 100

Min(a, b) == IF a < b THEN a ELSE b

RECURSIVE BNStrip(_)
BNStrip(a) ==
    IF a = <<>> \/ a[Len(a)] # 0 THEN a ELSE BNStrip(SubSeq(a, 1, Len(a) - 1))

RECURSIVE BNAdd(_, _, _)
BNAdd(a, b, c) ==
    IF a = <<>> /\ b = <<>>
    THEN (IF c = 0 THEN <<>> ELSE <<c>>)
    ELSE LET x == IF a = <<>> THEN 0 ELSE Head(a)
             z == IF b = <<>> THEN 0 ELSE Head(b)
             s == x + z + c
         IN  <<s % Base>> \o BNAdd(IF a = <<>> THEN a ELSE Tail(a),
                                   IF b = <<>> THEN b ELSE Tail(b), s \div Base)

\* a * n + c for a small n (n <= Base)
RECURSIVE BNMulSmall(_, _, _)
BNMulSmall(a, n, c) ==
    IF a = <<>>
    THEN (IF c = 0 THEN <<>> ELSE <<c % Base>> \o BNMulSmall(a, n, c \div Base))
    ELSE LET d == Head(a) * n + c
         IN  <<d % Base>> \o BNMulSmall(Tail(a), n, d \div Base)

RECURSIVE BNToInt(_)
BNToInt(a) == IF a = <<>> THEN 0 ELSE Head(a) + Base * BNToInt(Tail(a))

BNFromInt(n) == IF n = 0 THEN <<>> ELSE <<n>>

\* number of significant bits
BNBitLen(a) ==
    IF a = <<>> THEN 0
    ELSE LimbBits * (Len(a) - 1)
         + (CHOOSE k \in 1..LimbBits : 2 ^ (k - 1) <= a[Len(a)] /\ a[Len(a)] < 2 ^ k)

\* bit i of a, bit 0 the least significant
BNBit(a, i) ==
    IF i \div LimbBits + 1 > Len(a) THEN 0
    ELSE (a[i \div LimbBits + 1] \div 2 ^ (i % LimbBits)) % 2

\* a * 2^d
BNShl(a, d) ==
    [i \in 1..(d \div LimbBits) |-> 0] \o BNMulSmall(a, 2 ^ (d % LimbBits), 0)

\* a \div 2^d
BNShr(a, d) ==
    LET q == d \div LimbBits
        sh == d % LimbBits
        limb(i) == IF i > Len(a) THEN 0 ELSE a[i]
    IN  BNStrip([i \in 1..(Len(a) - q) |->
                   limb(i + q) \div 2 ^ sh
                   + (limb(i + q + 1) % 2 ^ sh) * 2 ^ (LimbBits - sh)])

\* a % 2^d # 0
BNLowNonZero(a, d) ==
    \/ \E i \in 1..Min(d \div LimbBits, Len(a)) : a[i] # 0
    \/ /\ d \div LimbBits + 1 <= Len(a)
       /\ a[d \div LimbBits + 1] % 2 ^ (d % LimbBits) # 0

FZero == [m |-> <<>>, e |-> 0]

\* round-to-nearest, ties-to-even, of bn * 2^ex (+ a non-zero tail below the
\* last bit when sticky = 1) to 53 significant bits
RoundToDouble(bn, ex, sticky) ==
    LET b == BNStrip(bn)
        L == BNBitLen(b)
    IN  IF L = 0 THEN FZero
        ELSE IF L <= MantBits
        THEN [m |-> BNShl(b, MantBits - L), e |-> ex - (MantBits - L)]
        ELSE LET d == L - MantBits
                 guard == BNBit(b, d - 1)
                 low == sticky = 1 \/ BNLowNonZero(b, d - 1)
                 kept == BNShr(b, d)
                 up == guard = 1 /\ (low \/ BNBit(kept, 0) = 1)
                 rnd == IF up THEN BNAdd(kept, <<1>>, 0) ELSE kept
             IN  IF BNBitLen(rnd) > MantBits
                 THEN [m |-> BNShr(rnd, 1), e |-> ex + d + 1]
                 ELSE [m |-> rnd, e |-> ex + d]

\* the first cnt base-2^15 digits of rm/den (rm < den), most significant last
RECURSIVE FracLimbs(_, _, _)
FracLimbs(rm, den, cnt) ==
    IF cnt = 0 THEN <<>>
    ELSE FracLimbs((rm * Base) % den, den, cnt - 1) \o <<(rm * Base) \div den>>

\* what is left of rm/den after those cnt digits
RECURSIVE FracRem(_, _, _)
FracRem(rm, den, cnt) ==
    IF cnt = 0 THEN rm ELSE FracRem((rm * Base) % den, den, cnt - 1)

\* the float a decimal literal k/100 denotes: the binary64 nearest to it
FloatLiteral(k) ==
    LET ip == k \div LiteralDen
        fr == k % LiteralDen
    IN  RoundToDouble(FracLimbs(fr, LiteralDen, LiteralLimbs) \o BNFromInt(ip),
                      0 - LimbBits * LiteralLimbs,
                      IF FracRem(fr, LiteralDen, LiteralLimbs) = 0 THEN 0 ELSE 1)

\* float + float
FAdd(a, b) ==
    IF a = FZero THEN b
    ELSE IF b = FZero THEN a
    ELSE LET emin == IF a.e < b.e THEN a.e ELSE b.e
         IN  RoundToDouble(BNAdd(BNShl(a.m, a.e - emin), BNShl(b.m, b.e - emin), 0),
                           emin, 0)

\* float * int (the int converts to a float exactly)
FMulInt(a, n) ==
    IF a = FZero \/ n = 0 THEN FZero
    ELSE RoundToDouble(BNMulSmall(a.m, n, 0), a.e, 0)

FOne == RoundToDouble(<<1>>, 0, 0)

\* round(float) -> int: nearest integer, ties to even (values below 2^31)
round(a) ==
    IF a = FZero THEN 0
    ELSE IF a.e >= 0 THEN BNToInt(BNShl(a.m, a.e))
    ELSE LET f == 0 - a.e
             q == BNToInt(BNShr(a.m, f))
             half == BNBit(a.m, f - 1)
             low == BNLowNonZero(a.m, f - 1)
         IN  IF half = 1 /\ (low \/ q % 2 = 1) THEN q + 1 ELSE q

\* ------------------------------------------- the random module's generator
\* random.seed(42) of train_test_split
FIXED_SEED == 42
\* a seed some other part of the process may have set
FOREIGN_SEED == {7}
Seeds == {FIXED_SEED} \cup FOREIGN_SEED

\* The generator is the Mersenne Twister MT19937: after random.seed(s) its
\* outputs are one fixed sequence of 32-bit words.  genrand_uint32[s][p + 1]
\* is the top 8 bits of the word p draws after seed(s); getrandbits(k), k <= 8,
\* is the top k bits of one word.  The state is [seed, pos].
genrand_uint32 ==
    (FIXED_SEED :>
    << 163,  28,   6, 189,  70,  62,  57,  35, 188,  26, 173, 189, 228, 139,  22, 151,
           108,   8,   7,  23,  55,  59, 129, 154,   6, 143,  50, 183, 166, 179, 139, 107,
            56, 114, 150,  71, 207, 222,   1, 194, 206,  40, 178, 108,  87,  71,  39,  55,
           245, 195,  86,  26,  23,  97,  24,  91, 216,  88, 154,  67, 206,  11, 186, 117 >>)
    @@
    ((CHOOSE s \in FOREIGN_SEED : TRUE) :>
    <<  82, 242,  38, 101, 166,  12,  18, 210, 137,  24,  93, 149,  14, 232, 129,  54,
             9,  22, 111, 107,  17,  61,  23, 141, 108,  15, 211, 144,  31, 242,  57, 161,
           160, 149, 242,  15, 147, 149, 101,  12, 249,  56,  11, 142, 219,  34,  74, 107,
            36, 138,  30, 146,  78, 143, 208, 174,  46,  26, 148, 146, 163,  48,  95,  24 >>)

\* variant: the generator is left as it was found
seed_skipped(g, s) == g

\* random.seed(s) on the process-wide generator g
seed(g, s) == [seed |-> s, pos |-> 0]

\* random.getrandbits(k): the value and the generator afterwards
getrandbits(k, g) ==
    [value |-> genrand_uint32[g.seed][g.pos + 1] \div 2 ^ (8 - k),
     rng |-> [g EXCEPT !.pos = @ + 1]]

\* int.bit_length
bit_length(n) == IF n = 0 THEN 0 ELSE CHOOSE k \in 1..8 : 2 ^ (k - 1) <= n /\ n < 2 ^ k

\* Random._randbelow_with_getrandbits(n): draw bit_length(n) bits until the
\* value is below n
RECURSIVE randbelow(_, _)
randbelow(n, g) ==
    LET d == getrandbits(bit_length(n), g)
    IN  IF d.value >= n THEN randbelow(n, d.rng) ELSE d

\* x[i], x[j] = x[j], x[i]  (Python indices, from 0)
swap(x, i, j) == [x EXCEPT ![i + 1] = x[j + 1], ![j + 1] = x[i + 1]]

\* Random.shuffle(x): for i in reversed(range(1, len(x))): j = randbelow(i + 1);
\* swap.  shuffle_from runs the loop from index i down.
RECURSIVE shuffle_from(_, _, _)
shuffle_from(x, i, g) ==
    IF i < 1 THEN [x |-> x, rng |-> g]
    ELSE LET d == randbelow(i + 1, g)
         IN  shuffle_from(swap(x, i, d.value), i - 1, d.rng)

shuffle(x, g) == shuffle_from(x, Len(x) - 1, g)

\* ------------------------------------------ DataProcessor.train_test_split
\* the ratio literals a caller may pass, in hundredths: the default
\* 0.7/0.1/0.2, the triples of the specification's scenarios, triples whose
\* cut points fall on a half, and 0.7/0.2/0.1
RatioTriples ==
    {<<70, 10, 20>>, <<60, 10, 30>>, <<60, 15, 25>>, <<60, 15, 24>>, <<60, 15, 26>>,
     <<50, 25, 25>>, <<0, 50, 50>>, <<100, 0, 0>>, <<70, 20, 10>>}

\* the floats those literals denote
RatioFloats ==
    {<<FloatLiteral(r[1]), FloatLiteral(r[2]), FloatLiteral(r[3])>> : r \in RatioTriples}

\* variant: the ratio check is missing
proportions_unchecked(train_size, val_size, test_size) == FALSE

\* (train_size + val_size + test_size) != 1
proportions_invalid(train_size, val_size, test_size) ==
    FAdd(FAdd(train_size, val_size), test_size) # FOne

\* variant: the labels are attached in reverse order
zip_misaligned(X, y) ==
    [i \in 1..Min(Len(X), Len(y)) |-> <<X[i], y[Min(Len(X), Len(y)) + 1 - i]>>]

\* list(zip(X, y)): pairs up to the end of the shorter argument
zip(X, y) == [i \in 1..Min(Len(X), Len(y)) |-> <<X[i], y[i]>>]

\* zip(*combined_data) of a non-empty list of pairs: the two columns
unzip(combined_data) ==
    <<[i \in 1..Len(combined_data) |-> combined_data[i][1]],
      [i \in 1..Len(combined_data) |-> combined_data[i][2]]>>

\* s[lo:hi] for 0 <= lo, 0 <= hi
slice(s, lo, hi) ==
    IF Min(hi, Len(s)) <= Min(lo, Len(s)) THEN <<>>
    ELSE SubSeq(s, Min(lo, Len(s)) + 1, Min(hi, Len(s)))

\* round(train_size * len(y))
train_idx(train_size, n) == round(FMulInt(train_size, n))

\* variant: the second cut point forgets the training share
val_idx_of_val_size(train_size, val_size, n) == round(FMulInt(val_size, n))

\* round((train_size + val_size) * len(y))
val_idx(train_size, val_size, n) == round(FMulInt(FAdd(train_size, val_size), n))

\* variant: X_test starts at train_idx
split_X_overlapping(X, ti, vi) ==
    <<slice(X, 0, ti), slice(X, ti, vi), slice(X, ti, Len(X))>>

\* X[:train_idx], X[train_idx:val_idx], X[val_idx:]
split_X(X, ti, vi) == <<slice(X, 0, ti), slice(X, ti, vi), slice(X, vi, Len(X))>>

\* y[:train_idx], y[train_idx:val_idx], y[val_idx:]
split_y(y, ti, vi) == <<slice(y, 0, ti), slice(y, ti, vi), slice(y, vi, Len(y))>>

\* Lines 141, 151 and 152 depend on the ratios and on len(y) only: they are
\* evaluated once for each ratio triple and each length that occurs.
proportions_checked ==
    [r \in RatioFloats |-> proportions_invalid(r[1], r[2], r[3])]

cut_points ==
    [r \in RatioFloats, n \in 0..MaxN |-> <<train_idx(r[1], n), val_idx(r[1], r[2], n)>>]

\* what a call raises: the ValueError of line 142, or the ValueError
\* ("not enough values to unpack") of line 148
Raised(line, g) == [status |-> "ValueError", line |-> line, out |-> <<>>, rng |-> g]

\* lines 148-158, on the shuffled list of pairs
unpack_and_split(combined_data, train_size, val_size, test_size, g) ==
    IF Len(combined_data) = 0 THEN Raised(148, g)
    ELSE LET cols == unzip(combined_data)
             cuts == cut_points[<<train_size, val_size, test_size>>, Len(cols[2])]
             ti == cuts[1]
             vi == cuts[2]
         IN  [status |-> "returned", line |-> 158,
              out |-> split_X(cols[1], ti, vi) \o split_y(cols[2], ti, vi),
              rng |-> g]

\* The whole call, started with the process-wide generator in state g:
\* status, the six sequences <<X_train, X_val, X_test, y_train, y_val,
\* y_test>> (none when it raises) and the generator it leaves behind.
train_test_split(X, y, train_size, val_size, test_size, g) ==
    IF proportions_checked[<<train_size, val_size, test_size>>] THEN Raised(142, g)
    ELSE LET sh == shuffle(zip(X, y), seed(g, FIXED_SEED))
         IN  unpack_and_split(sh.x, train_size, val_size, test_size, sh.rng)

\* --------------------------------------- DataProcessor.disp_label_cardinality
\* list(set(y)): the distinct labels in an order the hash seed decides
Orderings(S) ==
    {o \in [1..Cardinality(S) -> S] : \A i, j \in 1..Cardinality(S) : o[i] = o[j] => i = j}

\* the (label, cardinality) pairs printed for "cardinality, label in
\* enumerate(unique_labels)"
label_cardinality_lines(unique_labels) ==
    [i \in 1..Len(unique_labels) |-> <<unique_labels[i], i - 1>>]

\* ------------------------------------------------------------- the program
Labels == {"Iris-setosa", "Iris-versicolor", "Iris-virginica"}

\* A feature vector is opaque to the partitioner; it is represented by the
\* number of its observation (the row of iris.data it was read from).
Rows(n) == [i \in 1..n |-> i]

LabelSeqs(n, L) == [1..n -> L]

\* the label column of a file whose classes alternate row by row
AlternatingLabels(n) ==
    [i \in 1..n |-> IF i % 2 = 1 THEN "Iris-setosa" ELSE "Iris-versicolor"]

\* the (X, y) a caller may pass to train_test_split: every short pair of
\* lists over two classes, equal in length or not, and the longer well-formed
\* datasets
Datasets ==
    {<<Rows(n), ys>> : n \in 0..MaxLen,
                       ys \in UNION {LabelSeqs(k, {"Iris-setosa", "Iris-versicolor"}) :
                                       k \in 0..MaxLen}}
    \cup {<<Rows(n), AlternatingLabels(n)>> : n \in (MaxLen + 1)..MaxN}

\* the label columns a caller may pass to disp_label_cardinality
LabelColumns == UNION {LabelSeqs(k, Labels) : k \in 0..MaxLen}

Threads == {1, 2}

VARIABLES
    main_X, main_y,   \* the caller's lists X and y
    sizes,            \* the caller's <<train_size, val_size, test_size>> (floats)
    rng,              \* the random module's generator
    last,             \* outcome of the latest train_test_split
    first,            \* outcome of the first train_test_split
    ncalls,           \* calls made so far (counted up to 2)
    printed,          \* output of disp_label_cardinality
    th                \* the threads of the concurrent program

vars == <<main_X, main_y, sizes, rng, last, first, ncalls, printed, th>>

NoOutcome == [status |-> "none", line |-> 0, out |-> <<>>]

NoCall == [status |-> "none", line |-> 0, out |-> <<>>, entry |-> <<>>, exit |-> <<>>]

NotPrinted == [called |-> FALSE, lines |-> <<>>]

Idle == [pc |-> "idle", X |-> <<>>, y |-> <<>>, x |-> <<>>, i |-> 0,
         status |-> "none", line |-> 0, out |-> <<>>]

Outcome(r) == [status |-> r.status, line |-> r.line, out |-> r.out]

InitRest ==
    /\ sizes \in RatioFloats
    /\ \E s \in FOREIGN_SEED : rng = [seed |-> s, pos |-> 0]
    /\ last = NoCall
    /\ first = NoOutcome
    /\ ncalls = 0
    /\ printed = NotPrinted

Init ==
    /\ \E d \in Datasets : main_X = d[1] /\ main_y = d[2]
    /\ InitRest
    /\ th = [t \in Threads |-> Idle]

\* main(), line 224: the caller splits its dataset
Call ==
    LET r == train_test_split(main_X, main_y, sizes[1], sizes[2], sizes[3], rng)
    IN  /\ last' = [status |-> r.status, line |-> r.line, out |-> r.out,
                    entry |-> rng, exit |-> r.rng]
        /\ first' = IF ncalls = 0 THEN Outcome(r) ELSE first
        /\ ncalls' = IF ncalls < 2 THEN ncalls + 1 ELSE ncalls
        /\ rng' = r.rng
        /\ UNCHANGED <<main_X, main_y, sizes, printed, th>>

\* another train_test_split call of the process, on another dataset
OtherCall ==
    \E n \in 0..MaxLen :
        /\ rng' = train_test_split(Rows(n), AlternatingLabels(n),
                                   sizes[1], sizes[2], sizes[3], rng).rng
        /\ UNCHANGED <<main_X, main_y, sizes, last, first, ncalls, printed, th>>

\* any other code of the process draws from the generator
OtherDraw ==
    /\ rng.pos < MaxPos
    /\ rng' = getrandbits(8, rng).rng
    /\ UNCHANGED <<main_X, main_y, sizes, last, first, ncalls, printed, th>>

\* any other code of the process seeds the generator
Reseed ==
    \E s \in Seeds :
        /\ rng' = seed(rng, s)
        /\ UNCHANGED <<main_X, main_y, sizes, last, first, ncalls, printed, th>>

\* main(), line 229
disp_label_cardinality ==
    \E unique_labels \in Orderings({main_y[i] : i \in 1..Len(main_y)}) :
        /\ printed' = [called |-> TRUE, lines |-> label_cardinality_lines(unique_labels)]
        /\ UNCHANGED <<main_X, main_y, sizes, rng, last, first, ncalls, th>>

Next == Call \/ OtherCall \/ OtherDraw \/ Reseed

\* a sequential process that splits its dataset, any number of times
Spec == Init /\ [][Next]_vars

InitLabels ==
    /\ \E ys \in LabelColumns : main_X = Rows(Len(ys)) /\ main_y = ys
    /\ InitRest
    /\ th = [t \in Threads |-> Idle]

NextLabels == disp_label_cardinality

\* a process that prints the label summary of its label column
SpecLabels == InitLabels /\ [][NextLabels]_vars

\* ------------------------------------------------- two threads, one process
\* Each thread calls train_test_split on a dataset of its own.  The calls of
\* random.seed and getrandbits are atomic; between them the interpreter may
\* switch threads (Random.shuffle is Python code).
InitConc ==
    /\ main_X = <<>>
    /\ main_y = <<>>
    /\ InitRest
    /\ \E n1 \in 0..MaxLen, n2 \in 0..MaxLen :
           th = (1 :> [Idle EXCEPT !.pc = "start", !.X = Rows(n1),
                                   !.y = AlternatingLabels(n1)])
                @@ (2 :> [Idle EXCEPT !.pc = "start", !.X = Rows(n2),
                                      !.y = AlternatingLabels(n2)])

\* lines 141-146: the ratio check, random.seed(42), list(zip(X, y))
t_seed(t) ==
    /\ th[t].pc = "start"
    /\ IF proportions_checked[sizes]
       THEN /\ th' = [th EXCEPT ![t].pc = "done", ![t].status = "ValueError",
                                ![t].line = 142]
            /\ rng' = rng
       ELSE /\ th' = [th EXCEPT ![t].pc = "shuffle",
                                ![t].x = zip(th[t].X, th[t].y),
                                ![t].i = Len(zip(th[t].X, th[t].y)) - 1]
            /\ rng' = seed(rng, FIXED_SEED)
    /\ UNCHANGED <<main_X, main_y, sizes, last, first, ncalls, printed>>

\* line 147: one getrandbits call of the shuffle loop, and the swap it allows
t_draw(t) ==
    /\ th[t].pc = "shuffle"
    /\ th[t].i >= 1
    /\ LET d == getrandbits(bit_length(th[t].i + 1), rng)
       IN  /\ rng' = d.rng
           /\ th' = IF d.value >= th[t].i + 1 THEN th
                    ELSE [th EXCEPT ![t].x = swap(th[t].x, th[t].i, d.value),
                                    ![t].i = th[t].i - 1]
    /\ UNCHANGED <<main_X, main_y, sizes, last, first, ncalls, printed>>

\* lines 148-158
t_return(t) ==
    /\ th[t].pc = "shuffle"
    /\ th[t].i < 1
    /\ LET r == unpack_and_split(th[t].x, sizes[1], sizes[2], sizes[3], rng)
       IN  th' = [th EXCEPT ![t].pc = "done", ![t].status = r.status,
                            ![t].line = r.line, ![t].out = r.out]
    /\ UNCHANGED <<main_X, main_y, sizes, rng, last, first, ncalls, printed>>

NextConc == \E t \in Threads : t_seed(t) \/ t_draw(t) \/ t_return(t)

SpecConc == InitConc /\ [][NextConc]_vars

\* ------------------------------------------------------------- properties
Returned == last.status = "returned"

EqualLength == Len(main_X) = Len(main_y)

\* the rows of the three subsets, train then val then test
RowsOut == last.out[1] \o last.out[2] \o last.out[3]

\* the ratio triples whose float sum is 1, and the cut points the size law
\* names, once for each ratio triple and each length
SumIsOne == [r \in RatioFloats |-> FAdd(FAdd(r[1], r[2]), r[3]) = FOne]

SizeLawCuts ==
    [r \in RatioFloats, n \in 0..MaxN |->
        <<round(FMulInt(r[1], n)), round(FMulInt(FAdd(r[1], r[2]), n))>>]

Floats(r) == <<FloatLiteral(r[1]), FloatLiteral(r[2]), FloatLiteral(r[3])>>

\* the ratio triples of the scenarios: 0.6/0.1/0.3, 0.5/0.25/0.25,
\* 0.6/0.15/0.24 (0.99), 0.6/0.15/0.25 (1) and 0.6/0.15/0.26 (1.01)
Sizes_60_10_30 == Floats(<<60, 10, 30>>)

Sizes_50_25_25 == Floats(<<50, 25, 25>>)

Sizes_60_15_24 == Floats(<<60, 15, 24>>)

Sizes_60_15_25 == Floats(<<60, 15, 25>>)

Sizes_60_15_26 == Floats(<<60, 15, 26>>)

\* C1: after a call on equal-length, non-empty inputs has returned, every
\* input row is in exactly one of X_train, X_val, X_test, exactly once, and the
\* three subsets together have len(X) rows and len(y) labels.
PartitionProperty ==
    (Returned /\ EqualLength /\ Len(main_X) >= 1) =>
        /\ Len(RowsOut) = Len(main_X)
        /\ \A i \in 1..Len(main_X) :
               Cardinality({k \in 1..Len(RowsOut) : RowsOut[k] = main_X[i]}) = 1
        /\ \A a \in 1..3, b \in 1..3 :
               a # b => {last.out[a][k] : k \in 1..Len(last.out[a])}
                        \cap {last.out[b][k] : k \in 1..Len(last.out[b])} = {}
        /\ Len(last.out[4]) + Len(last.out[5]) + Len(last.out[6]) = Len(main_y)

PartitionWitness ==
    /\ Returned /\ EqualLength
    /\ Len(last.out[1]) >= 2 /\ Len(last.out[2]) >= 1 /\ Len(last.out[3]) >= 1
    /\ last.out[1][1] # 1

\* C2: after a call on equal-length inputs has returned, X_S and y_S have the
\* same length for each subset S, and y_S[k] is the label the input had at the
\* row X_S[k].
PairingInvariant ==
    (Returned /\ EqualLength) =>
        \A sub \in 1..3 :
            /\ Len(last.out[sub]) = Len(last.out[sub + 3])
            /\ \A k \in 1..Len(last.out[sub]) :
                   last.out[sub + 3][k] = main_y[last.out[sub][k]]

PairingWitness ==
    /\ Returned /\ EqualLength
    /\ Len(last.out[1]) >= 2
    /\ last.out[1][1] > last.out[1][2]
    /\ last.out[4][1] # last.out[4][2]

\* C3: after a call on equal-length inputs of n >= 1 rows has returned,
\* len(train) = round(train_size * n), len(val) = round((train_size +
\* val_size) * n) - round(train_size * n), len(test) = n - len(train) -
\* len(val), with round to nearest, ties to even (0.5 * 1 gives 0, 0.5 * 3
\* gives 2); n = 10 with 0.6/0.1/0.3 gives 6, 1 and 3.
SizeLaw ==
    (Returned /\ EqualLength /\ Len(main_X) >= 1) =>
        LET n == Len(main_X)
            cuts == SizeLawCuts[sizes, n]
        IN  /\ Len(last.out[1]) = cuts[1]
            /\ Len(last.out[2]) = cuts[2] - cuts[1]
            /\ Len(last.out[3]) = n - Len(last.out[1]) - Len(last.out[2])
            /\ (n = 10 /\ sizes = Sizes_60_10_30) =>
                   /\ Len(last.out[1]) = 6
                   /\ Len(last.out[2]) = 1
                   /\ Len(last.out[3]) = 3
            /\ (n = 1 /\ sizes = Sizes_50_25_25) => Len(last.out[1]) = 0
            /\ (n = 3 /\ sizes = Sizes_50_25_25) => Len(last.out[1]) = 2

SizeLawWitness ==
    /\ Returned /\ EqualLength
    /\ Len(main_X) = 10
    /\ sizes = Sizes_60_10_30
    /\ Len(last.out[5]) = 1

\* C4: a call with len(X) # len(y) does not return subsets.
ShapeRejection ==
    (last.status # "none" /\ ~EqualLength) => (~Returned /\ last.out = <<>>)

\* C5: a call ends in the ValueError of the ratio check, with no subsets,
\* exactly when the float sum train_size + val_size + test_size differs from 1:
\* 0.6/0.15/0.24 (0.99) and 0.6/0.15/0.26 (1.01) are rejected, and a call with
\* a sum of 1 (0.6/0.15/0.25) on non-empty equal-length inputs returns.
ProportionRejection ==
    last.status # "none" =>
        /\ (last.status = "ValueError" /\ last.line = 142) <=> ~SumIsOne[sizes]
        /\ ~SumIsOne[sizes] => last.out = <<>>
        /\ (SumIsOne[sizes] /\ EqualLength /\ Len(main_X) >= 1) => Returned
        /\ sizes \in {Sizes_60_15_24, Sizes_60_15_26} => ~Returned
        /\ (sizes = Sizes_60_15_25 /\ EqualLength /\ Len(main_X) >= 1) => Returned

ProportionWitness ==
    /\ last.status = "ValueError" /\ last.line = 142
    /\ sizes = Sizes_60_15_24
    /\ EqualLength /\ Len(main_X) >= 1

\* C6: once the caller has split its dataset twice or more, the latest call
\* ended as the first one did, with the same six sequences, whatever drew from
\* or seeded the generator in between.
Determinism == ncalls = 2 => Outcome(last) = first

DeterminismWitness ==
    /\ ncalls = 2
    /\ Returned /\ EqualLength /\ Len(main_X) >= 3
    /\ last.entry.seed \in FOREIGN_SEED
    /\ last.entry.pos > 0

\* C7: a call leaves the process-wide generator in the state it found it in.
NoSideEffects == last.status # "none" => last.exit = last.entry

\* C8: a thread's call returns what the call returns when run alone.
ThreadIsolation ==
    \A t \in Threads :
        th[t].pc = "done" =>
            Outcome(th[t]) = Outcome(train_test_split(th[t].X, th[t].y, sizes[1],
                                                      sizes[2], sizes[3], rng))

\* C9: the label summary has one line for each distinct label of y, and the
\* number on the line is the number of occurrences of that label in y; the
\* numbers sum to len(y).
RECURSIVE SumOfCounts(_)
SumOfCounts(lines) == IF lines = <<>> THEN 0 ELSE Head(lines)[2] + SumOfCounts(Tail(lines))

LabelCounts ==
    printed.called =>
        /\ \A l \in {main_y[i] : i \in 1..Len(main_y)} :
               Cardinality({k \in 1..Len(printed.lines) : printed.lines[k][1] = l}) = 1
        /\ \A k \in 1..Len(printed.lines) :
               printed.lines[k][2]
                   = Cardinality({i \in 1..Len(main_y) : main_y[i] = printed.lines[k][1]})
        /\ SumOfCounts(printed.lines) = Len(main_y)

\* C10: a call with len(X) = len(y) and ratios summing to 1 returns, and on the
\* empty dataset it returns three empty subsets.
OnlyTwoFailureModes ==
    (last.status # "none" /\ EqualLength /\ SumIsOne[sizes]) =>
        /\ Returned
        /\ Len(main_X) = 0 => \A sub \in 1..6 : last.out[sub] = <<>>
====
